---- MODULE Spec2Model ----
(***************************************************************************)
(* Model of build.rs of softfloat-sys: the build script that generates the *)
(* C99 type aliases, detects the thread-local keyword of the C compiler,   *)
(* selects the softfloat build target for the compilation target, and      *)
(* drives the cc::Build builder to compile berkeley-softfloat-3.           *)
(*                                                                         *)
(* Conventions.  Option<T> is a sequence of length at most one: None is    *)
(* <<>>, Some(x) is <<x>>.  A path is the sequence of its components.  The  *)
(* builder is modelled by the log of the calls made on it, in order.       *)
(***************************************************************************)
EXTENDS Integers, Sequences, FiniteSets, TLC

None == <<>>
Some(x) == <<x>>

(* ------------------------------------------------------------------ *)
(* Bounds of the explored input space                                  *)
(* ------------------------------------------------------------------ *)
MaxMajor == 9
MaxMinor == 10
MaxPatch == 1
MaxInline == 5

(* Source catalog (main) *)
primitive_sources ==
  <<
    "s_eq128.c", "s_le128.c", "s_lt128.c", "s_shortShiftLeft128.c",
    "s_shortShiftRight128.c", "s_shortShiftRightJam64.c",
    "s_shortShiftRightJam64Extra.c", "s_shortShiftRightJam128.c",
    "s_shortShiftRightJam128Extra.c", "s_shiftRightJam32.c",
    "s_shiftRightJam64.c", "s_shiftRightJam64Extra.c",
    "s_shiftRightJam128.c", "s_shiftRightJam128Extra.c",
    "s_shiftRightJam256M.c", "s_countLeadingZeros8.c",
    "s_countLeadingZeros16.c", "s_countLeadingZeros32.c",
    "s_countLeadingZeros64.c", "s_add128.c", "s_add256M.c", "s_sub128.c",
    "s_sub256M.c", "s_mul64ByShifted32To128.c", "s_mul64To128.c",
    "s_mul128By32.c", "s_mul128To256M.c", "s_approxRecip_1Ks.c",
    "s_approxRecip32_1.c", "s_approxRecipSqrt_1Ks.c",
    "s_approxRecipSqrt32_1.c"
  >>

specialize_sources ==
  <<
    "softfloat_raiseFlags.c", "s_f16UIToCommonNaN.c", "s_commonNaNToF16UI.c",
    "s_propagateNaNF16UI.c", "s_f32UIToCommonNaN.c", "s_commonNaNToF32UI.c",
    "s_propagateNaNF32UI.c", "s_f64UIToCommonNaN.c", "s_commonNaNToF64UI.c",
    "s_propagateNaNF64UI.c", "extF80M_isSignalingNaN.c",
    "s_extF80UIToCommonNaN.c", "s_commonNaNToExtF80UI.c",
    "s_propagateNaNExtF80UI.c", "f128M_isSignalingNaN.c",
    "s_f128UIToCommonNaN.c", "s_commonNaNToF128UI.c", "s_propagateNaNF128UI.c"
  >>

other_sources ==
  <<
    "s_roundToUI32.c", "s_roundToUI64.c", "s_roundToI32.c", "s_roundToI64.c",
    "s_normSubnormalF16Sig.c", "s_roundPackToF16.c",
    "s_normRoundPackToF16.c", "s_addMagsF16.c", "s_subMagsF16.c",
    "s_mulAddF16.c", "s_normSubnormalF32Sig.c", "s_roundPackToF32.c",
    "s_normRoundPackToF32.c", "s_addMagsF32.c", "s_subMagsF32.c",
    "s_mulAddF32.c", "s_normSubnormalF64Sig.c", "s_roundPackToF64.c",
    "s_normRoundPackToF64.c", "s_addMagsF64.c", "s_subMagsF64.c",
    "s_mulAddF64.c", "s_normSubnormalExtF80Sig.c", "s_roundPackToExtF80.c",
    "s_normRoundPackToExtF80.c", "s_addMagsExtF80.c", "s_subMagsExtF80.c",
    "s_normSubnormalF128Sig.c", "s_roundPackToF128.c",
    "s_normRoundPackToF128.c", "s_addMagsF128.c", "s_subMagsF128.c",
    "s_mulAddF128.c", "softfloat_state.c", "ui32_to_f16.c", "ui32_to_f32.c",
    "ui32_to_f64.c", "ui32_to_extF80.c", "ui32_to_extF80M.c",
    "ui32_to_f128.c", "ui32_to_f128M.c", "ui64_to_f16.c", "ui64_to_f32.c",
    "ui64_to_f64.c", "ui64_to_extF80.c", "ui64_to_extF80M.c",
    "ui64_to_f128.c", "ui64_to_f128M.c", "i32_to_f16.c", "i32_to_f32.c",
    "i32_to_f64.c", "i32_to_extF80.c", "i32_to_extF80M.c", "i32_to_f128.c",
    "i32_to_f128M.c", "i64_to_f16.c", "i64_to_f32.c", "i64_to_f64.c",
    "i64_to_extF80.c", "i64_to_extF80M.c", "i64_to_f128.c", "i64_to_f128M.c",
    "f16_to_ui32.c", "f16_to_ui64.c", "f16_to_i32.c", "f16_to_i64.c",
    "f16_to_ui32_r_minMag.c", "f16_to_ui64_r_minMag.c",
    "f16_to_i32_r_minMag.c", "f16_to_i64_r_minMag.c", "f16_to_f32.c",
    "f16_to_f64.c", "f16_to_extF80.c", "f16_to_extF80M.c", "f16_to_f128.c",
    "f16_to_f128M.c", "f16_roundToInt.c", "f16_add.c", "f16_sub.c",
    "f16_mul.c", "f16_mulAdd.c", "f16_div.c", "f16_rem.c", "f16_sqrt.c",
    "f16_eq.c", "f16_le.c", "f16_lt.c", "f16_eq_signaling.c",
    "f16_le_quiet.c", "f16_lt_quiet.c", "f16_isSignalingNaN.c",
    "f32_to_ui32.c", "f32_to_ui64.c", "f32_to_i32.c", "f32_to_i64.c",
    "f32_to_ui32_r_minMag.c", "f32_to_ui64_r_minMag.c",
    "f32_to_i32_r_minMag.c", "f32_to_i64_r_minMag.c", "f32_to_f16.c",
    "f32_to_f64.c", "f32_to_extF80.c", "f32_to_extF80M.c", "f32_to_f128.c",
    "f32_to_f128M.c", "f32_roundToInt.c", "f32_add.c", "f32_sub.c",
    "f32_mul.c", "f32_mulAdd.c", "f32_div.c", "f32_rem.c", "f32_sqrt.c",
    "f32_eq.c", "f32_le.c", "f32_lt.c", "f32_eq_signaling.c",
    "f32_le_quiet.c", "f32_lt_quiet.c", "f32_isSignalingNaN.c",
    "f64_to_ui32.c", "f64_to_ui64.c", "f64_to_i32.c", "f64_to_i64.c",
    "f64_to_ui32_r_minMag.c", "f64_to_ui64_r_minMag.c",
    "f64_to_i32_r_minMag.c", "f64_to_i64_r_minMag.c", "f64_to_f16.c",
    "f64_to_f32.c", "f64_to_extF80.c", "f64_to_extF80M.c", "f64_to_f128.c",
    "f64_to_f128M.c", "f64_roundToInt.c", "f64_add.c", "f64_sub.c",
    "f64_mul.c", "f64_mulAdd.c", "f64_div.c", "f64_rem.c", "f64_sqrt.c",
    "f64_eq.c", "f64_le.c", "f64_lt.c", "f64_eq_signaling.c",
    "f64_le_quiet.c", "f64_lt_quiet.c", "f64_isSignalingNaN.c",
    "extF80_to_ui32.c", "extF80_to_ui64.c", "extF80_to_i32.c",
    "extF80_to_i64.c", "extF80_to_ui32_r_minMag.c",
    "extF80_to_ui64_r_minMag.c", "extF80_to_i32_r_minMag.c",
    "extF80_to_i64_r_minMag.c", "extF80_to_f16.c", "extF80_to_f32.c",
    "extF80_to_f64.c", "extF80_to_f128.c", "extF80_roundToInt.c",
    "extF80_add.c", "extF80_sub.c", "extF80_mul.c", "extF80_div.c",
    "extF80_rem.c", "extF80_sqrt.c", "extF80_eq.c", "extF80_le.c",
    "extF80_lt.c", "extF80_eq_signaling.c", "extF80_le_quiet.c",
    "extF80_lt_quiet.c", "extF80_isSignalingNaN.c", "extF80M_to_ui32.c",
    "extF80M_to_ui64.c", "extF80M_to_i32.c", "extF80M_to_i64.c",
    "extF80M_to_ui32_r_minMag.c", "extF80M_to_ui64_r_minMag.c",
    "extF80M_to_i32_r_minMag.c", "extF80M_to_i64_r_minMag.c",
    "extF80M_to_f16.c", "extF80M_to_f32.c", "extF80M_to_f64.c",
    "extF80M_to_f128M.c", "extF80M_roundToInt.c", "extF80M_add.c",
    "extF80M_sub.c", "extF80M_mul.c", "extF80M_div.c", "extF80M_rem.c",
    "extF80M_sqrt.c", "extF80M_eq.c", "extF80M_le.c", "extF80M_lt.c",
    "extF80M_eq_signaling.c", "extF80M_le_quiet.c", "extF80M_lt_quiet.c",
    "f128_to_ui32.c", "f128_to_ui64.c", "f128_to_i32.c", "f128_to_i64.c",
    "f128_to_ui32_r_minMag.c", "f128_to_ui64_r_minMag.c",
    "f128_to_i32_r_minMag.c", "f128_to_i64_r_minMag.c", "f128_to_f16.c",
    "f128_to_f32.c", "f128_to_extF80.c", "f128_to_f64.c",
    "f128_roundToInt.c", "f128_add.c", "f128_sub.c", "f128_mul.c",
    "f128_mulAdd.c", "f128_div.c", "f128_rem.c", "f128_sqrt.c", "f128_eq.c",
    "f128_le.c", "f128_lt.c", "f128_eq_signaling.c", "f128_le_quiet.c",
    "f128_lt_quiet.c", "f128_isSignalingNaN.c", "f128M_to_ui32.c",
    "f128M_to_ui64.c", "f128M_to_i32.c", "f128M_to_i64.c",
    "f128M_to_ui32_r_minMag.c", "f128M_to_ui64_r_minMag.c",
    "f128M_to_i32_r_minMag.c", "f128M_to_i64_r_minMag.c", "f128M_to_f16.c",
    "f128M_to_f32.c", "f128M_to_extF80M.c", "f128M_to_f64.c",
    "f128M_roundToInt.c", "f128M_add.c", "f128M_sub.c", "f128M_mul.c",
    "f128M_mulAdd.c", "f128M_div.c", "f128M_rem.c", "f128M_sqrt.c",
    "f128M_eq.c", "f128M_le.c", "f128M_lt.c", "f128M_eq_signaling.c",
    "f128M_le_quiet.c", "f128M_lt_quiet.c"
  >>


(* ------------------------------------------------------------------ *)
(* Enumerations and their directory names                              *)
(* ------------------------------------------------------------------ *)
Specialization == {"X8086", "X8086_SSE", "ARM_VFPv2", "ARM_VFPv2_DefaultNaN", "RISCV"}

SpecializationToStr(spec) ==
  CASE spec = "X8086" -> "8086"
    [] spec = "X8086_SSE" -> "8086-SSE"
    [] spec = "ARM_VFPv2" -> "ARM-VFPv2"
    [] spec = "ARM_VFPv2_DefaultNaN" -> "ARM-VFPv2-defaultNaN"
    [] spec = "RISCV" -> "RISCV"

BuildTarget ==
  {"Linux_386_GCC", "Linux_386_SSE2_GCC", "Linux_Arm_VFPv2_GCC", "Linux_x86_64_GCC",
   "Wasm_Clang", "Win32_MinGW", "Win32_SSE2_MinGW", "Win64_MinGW_w64"}

BuildTargetToStr(target) ==
  CASE target = "Linux_386_GCC" -> "Linux-386-GCC"
    [] target = "Linux_386_SSE2_GCC" -> "Linux-386-SSE2-GCC"
    [] target = "Linux_Arm_VFPv2_GCC" -> "Linux-ARM-VFPv2-GCC"
    [] target = "Linux_x86_64_GCC" -> "Linux-x86_64-GCC"
    [] target = "Wasm_Clang" -> "Wasm-Clang"
    [] target = "Win32_MinGW" -> "Win32-MinGW"
    [] target = "Win32_SSE2_MinGW" -> "Win32-SSE2-MinGW"
    [] target = "Win64_MinGW_w64" -> "Win64-MinGW-w64"

(* ------------------------------------------------------------------ *)
(* Paths and integer formatting                                        *)
(* ------------------------------------------------------------------ *)
(* Path::join of a relative path: the components of q follow those of p. *)
Join(p, q) == p \o q

DigitStr == <<"0", "1", "2", "3", "4", "5", "6", "7", "8", "9">>

RECURSIVE NatToString(_)
NatToString(n) ==
  IF n < 10 THEN DigitStr[n + 1]
  ELSE NatToString(n \div 10) \o DigitStr[(n % 10) + 1]

(* i32::to_string *)
IntToString(n) == IF n < 0 THEN "-" \o NatToString(0 - n) ELSE NatToString(n)

softfloat_base == <<"berkeley-softfloat-3">>
softfloat_source == Join(softfloat_base, <<"source">>)
softfloat_build == Join(softfloat_base, <<"build">>)

(* ------------------------------------------------------------------ *)
(* Compiler version: text of the probe, parsing, ordering              *)
(* A version text is a sequence of one-character strings.              *)
(* ------------------------------------------------------------------ *)
IsDigit(c) == \E d \in 1..10 : DigitStr[d] = c
DigitVal(c) == (CHOOSE d \in 1..10 : DigitStr[d] = c) - 1

RECURSIVE SplitDots(_)
SplitDots(s) ==
  IF \A i \in 1..Len(s) : s[i] # "."
  THEN <<s>>
  ELSE LET i == CHOOSE k \in 1..Len(s) : s[k] = "." /\ \A j \in 1..(k - 1) : s[j] # "."
       IN  <<SubSeq(s, 1, i - 1)>> \o SplitDots(SubSeq(s, i + 1, Len(s)))

RECURSIVE DigitsValue(_)
DigitsValue(s) ==
  IF s = <<>> THEN 0
  ELSE DigitsValue(SubSeq(s, 1, Len(s) - 1)) * 10 + DigitVal(s[Len(s)])

(* str::parse::<usize> of one component *)
ParseUsize(s) ==
  IF s # <<>> /\ \A i \in 1..Len(s) : IsDigit(s[i]) THEN Some(DigitsValue(s)) ELSE None

(* Version::parse: dot-separated decimal components major[.minor[.patch]], *)
(* an absent component is 0; anything else is an error (None).            *)
VersionParse(s) ==
  LET parts == SplitDots(s)
      nums == [i \in 1..Len(parts) |-> ParseUsize(parts[i])]
  IN  IF Len(parts) > 3 \/ \E i \in 1..Len(parts) : nums[i] = None
      THEN None
      ELSE Some([major |-> nums[1][1],
                 minor |-> IF Len(parts) >= 2 THEN nums[2][1] ELSE 0,
                 patch |-> IF Len(parts) >= 3 THEN nums[3][1] ELSE 0])

(* Character order used by a byte-wise string comparison. *)
CharOrd(c) == IF c = "." THEN 46 ELSE 48 + DigitVal(c)

RECURSIVE NatToChars(_)
NatToChars(n) ==
  IF n < 10 THEN <<DigitStr[n + 1]>>
  ELSE NatToChars(n \div 10) \o <<DigitStr[(n % 10) + 1]>>

VersionToChars(v) ==
  NatToChars(v.major) \o <<".">> \o NatToChars(v.minor) \o <<".">> \o NatToChars(v.patch)

RECURSIVE LexGe(_, _)
LexGe(a, b) ==
  IF b = <<>> THEN TRUE
  ELSE IF a = <<>> THEN FALSE
  ELSE IF CharOrd(a[1]) # CharOrd(b[1]) THEN CharOrd(a[1]) > CharOrd(b[1])
  ELSE LexGe(Tail(a), Tail(b))

(* Comparison of the version texts instead of the version numbers. *)
VersionGeLexicographic(a, b) == LexGe(VersionToChars(a), VersionToChars(b))

(* Version's derived ordering: major, then minor, then patch, each numeric. *)
VersionGe(a, b) ==
  \/ a.major > b.major
  \/ a.major = b.major /\ a.minor > b.minor
  \/ a.major = b.major /\ a.minor = b.minor /\ a.patch >= b.patch

(* cc_version(&tool): run the probe, parse what it printed. *)
cc_version(t) ==
  IF t.dumpversion = None THEN None ELSE VersionParse(t.dumpversion[1])

(* A fallback keyword instead of the fatal error when the version is unknown. *)
DetectThreadLocalFallback(t) ==
  IF ~t.found THEN [ok |-> FALSE, version |-> None, keyword |-> None]
  ELSE IF t.family = "gnu" THEN
    LET version == cc_version(t)
    IN  IF version = None
        THEN [ok |-> TRUE, version |-> None, keyword |-> Some("__thread")]
        ELSE [ok |-> TRUE, version |-> version,
              keyword |-> IF VersionGe(version[1], VersionParse(<<"4", ".", "9">>)[1])
                          THEN Some("_Thread_local") ELSE Some("__thread")]
  ELSE [ok |-> TRUE, version |-> None, keyword |-> Some("_Thread_local")]

(* The thread_local detection of main: ok = FALSE is a panic. *)
DetectThreadLocal(t) ==
  IF ~t.found THEN [ok |-> FALSE, version |-> None, keyword |-> None]
  ELSE IF t.family = "gnu" THEN
    LET version == cc_version(t)
    IN  IF version = None
        THEN [ok |-> FALSE, version |-> None, keyword |-> None]
        ELSE [ok |-> TRUE, version |-> version,
              keyword |-> IF VersionGe(version[1], VersionParse(<<"4", ".", "9">>)[1])
                          THEN Some("_Thread_local") ELSE Some("__thread")]
  ELSE [ok |-> TRUE, version |-> None, keyword |-> Some("_Thread_local")]

(* ------------------------------------------------------------------ *)
(* Calls on the cc::Build builder                                      *)
(* ------------------------------------------------------------------ *)
Include(p) == [op |-> "include", path |-> p]
Define(n, v) == [op |-> "define", name |-> n, value |-> v]
Files(ps) == [op |-> "files", paths |-> ps]
File(p) == [op |-> "file", path |-> p]
OptLevel(n) == [op |-> "opt_level", level |-> n]
Warnings(b) == [op |-> "warnings", enabled |-> b]
CompileCall(n) == [op |-> "compile", output |-> n]

(* The PlatformCfg built by main; only thread_local varies between runs. *)
PlatformCfg(tl) ==
  [softfloat_source |-> softfloat_source,
   softfloat_build |-> softfloat_build,
   primitive_sources |-> primitive_sources,
   specialize_sources |-> specialize_sources,
   other_sources |-> other_sources,
   thread_local |-> tl]

specialized_source_path(cfg, spec) ==
  Join(cfg.softfloat_source, <<SpecializationToStr(spec)>>)

IncludeCalls(cfg, spec, target) ==
  << Include(Join(cfg.softfloat_build, <<BuildTargetToStr(target)>>)),
     Include(specialized_source_path(cfg, spec)) >>

(* INLINE_LEVEL defined without its value. *)
DefineCallsBareInline(cfg, defines) ==
     (IF defines.softfloat_round_odd THEN <<Define("SOFTFLOAT_ROUND_ODD", None)>> ELSE <<>>)
  \o (IF defines.inline_level # None THEN <<Define("INLINE_LEVEL", None)>> ELSE <<>>)
  \o (IF defines.softfloat_fast_div_32_to_16
      THEN <<Define("SOFTFLOAT_FAST_DIV32TO16", None)>> ELSE <<>>)
  \o (IF defines.softfloat_fast_div_64_to_32
      THEN <<Define("SOFTFLOAT_FAST_DIV64TO32", None)>> ELSE <<>>)
  \o (IF defines.softfloat_fast_int64 THEN <<Define("SOFTFLOAT_FAST_INT64", None)>> ELSE <<>>)
  \o <<Define("THREAD_LOCAL", cfg.thread_local)>>

DefineCalls(cfg, defines) ==
     (IF defines.softfloat_round_odd THEN <<Define("SOFTFLOAT_ROUND_ODD", None)>> ELSE <<>>)
  \o (IF defines.inline_level # None
      THEN <<Define("INLINE_LEVEL", Some(IntToString(defines.inline_level[1])))>> ELSE <<>>)
  \o (IF defines.softfloat_fast_div_32_to_16
      THEN <<Define("SOFTFLOAT_FAST_DIV32TO16", None)>> ELSE <<>>)
  \o (IF defines.softfloat_fast_div_64_to_32
      THEN <<Define("SOFTFLOAT_FAST_DIV64TO32", None)>> ELSE <<>>)
  \o (IF defines.softfloat_fast_int64 THEN <<Define("SOFTFLOAT_FAST_INT64", None)>> ELSE <<>>)
  \o <<Define("THREAD_LOCAL", cfg.thread_local)>>

SharedFiles(cfg) ==
  LET names == cfg.primitive_sources \o cfg.other_sources
  IN  [i \in 1..Len(names) |-> Join(cfg.softfloat_source, <<names[i]>>)]

(* The specialization routines resolved against the source root. *)
SpecializedFilesAtSourceRoot(cfg, spec) ==
  [i \in 1..Len(cfg.specialize_sources) |->
     Join(cfg.softfloat_source, <<cfg.specialize_sources[i]>>)]

SpecializedFiles(cfg, spec) ==
  [i \in 1..Len(cfg.specialize_sources) |->
     Join(specialized_source_path(cfg, spec), <<cfg.specialize_sources[i]>>)]

(* The file lists submitted ahead of the defines. *)
ConfigurePlatformFilesFirst(cfg, builder, spec, target, defines) ==
  builder
    \o IncludeCalls(cfg, spec, target)
    \o <<Files(SharedFiles(cfg)), Files(SpecializedFiles(cfg, spec))>>
    \o DefineCalls(cfg, defines)

(* The specialization routines left out. *)
ConfigurePlatformWithoutSpecialized(cfg, builder, spec, target, defines) ==
  builder
    \o IncludeCalls(cfg, spec, target)
    \o DefineCalls(cfg, defines)
    \o <<Files(SharedFiles(cfg))>>

(* PlatformCfg::configure_platform: the builder after the call. *)
ConfigurePlatform(cfg, builder, spec, target, defines) ==
  builder
    \o IncludeCalls(cfg, spec, target)
    \o DefineCalls(cfg, defines)
    \o <<Files(SharedFiles(cfg)), Files(SpecializedFiles(cfg, spec))>>

(* ------------------------------------------------------------------ *)
(* Target selection of main                                            *)
(* ------------------------------------------------------------------ *)
(* An unlisted target falls through to the Linux x86_64 rule. *)
TargetTableWithDefault(arch, os) ==
  IF arch = "wasm32"
  THEN Some([target |-> "Wasm_Clang", spec |-> "X8086",
             defines |-> [softfloat_round_odd |-> TRUE, inline_level |-> Some(5),
                          softfloat_fast_div_32_to_16 |-> TRUE,
                          softfloat_fast_div_64_to_32 |-> TRUE,
                          softfloat_fast_int64 |-> TRUE]])
  ELSE Some([target |-> "Linux_x86_64_GCC", spec |-> "X8086_SSE",
             defines |-> [softfloat_round_odd |-> TRUE, inline_level |-> Some(5),
                          softfloat_fast_div_32_to_16 |-> TRUE,
                          softfloat_fast_div_64_to_32 |-> TRUE,
                          softfloat_fast_int64 |-> TRUE]])

(* The cfg! chain of main: None is the unimplemented! branch. *)
TargetTable(arch, os) ==
  IF arch = "x86_64" /\ os = "linux"
  THEN Some([target |-> "Linux_x86_64_GCC", spec |-> "X8086_SSE",
             defines |-> [softfloat_round_odd |-> TRUE, inline_level |-> Some(5),
                          softfloat_fast_div_32_to_16 |-> TRUE,
                          softfloat_fast_div_64_to_32 |-> TRUE,
                          softfloat_fast_int64 |-> TRUE]])
  ELSE IF arch = "wasm32"
  THEN Some([target |-> "Wasm_Clang", spec |-> "X8086",
             defines |-> [softfloat_round_odd |-> TRUE, inline_level |-> Some(5),
                          softfloat_fast_div_32_to_16 |-> TRUE,
                          softfloat_fast_div_64_to_32 |-> TRUE,
                          softfloat_fast_int64 |-> TRUE]])
  ELSE None

(* Panic messages, as sequences of words. *)
UnsupportedMessageNaming(arch, os) ==
  <<"not", "implemented:", "build", "rules", "are", "not", "implemented", "for",
    arch, "and", os>>

UnsupportedMessage(arch, os) ==
  <<"not", "implemented:", "build", "rules", "are", "not", "implemented", "for",
    "the", "current", "target_arch", "and", "target_os">>

GenerateMessage == <<"Unable", "to", "generate", "C99", "type", "aliases">>
WriteMessage == <<"Couldn't", "write", "bindings">>
DetectMessage == <<"Failed", "to", "detect", "GCC", "version">>

(* The OPT_LEVEL workaround overriding every level. *)
OptLevelCallsAlways(opt) == <<OptLevel(IntToString(1))>>

(* The OPT_LEVEL workaround of main. *)
OptLevelCalls(opt) == IF opt = "0" THEN <<OptLevel(IntToString(1))>> ELSE <<>>

(* The closing builder chain of main. *)
FinalCalls ==
  << Include(Join(softfloat_source, <<"include">>)),
     File(<<"helper.c">>),
     Warnings(FALSE),
     CompileCall("softfloat-sys") >>

(* The level cc::Build compiles with: the overridden one, else OPT_LEVEL. *)
EffectiveOptLevel(calls, env) ==
  LET set == {i \in 1..Len(calls) : calls[i].op = "opt_level"}
  IN  IF set = {} THEN env
      ELSE calls[CHOOSE i \in set : \A j \in set : j <= i].level

(* ------------------------------------------------------------------ *)
(* The build environment                                               *)
(* ------------------------------------------------------------------ *)
Archs == {"x86_64", "wasm32", "arm", "x86", "aarch64"}
Oses == {"linux", "windows", "macos", "unknown"}
OptLevels == {"0", "1", "2", "3", "s", "z"}
OutDirs == {<<"target", "out">>}
Families == {"gnu", "clang", "msvc"}

VersionTexts ==
  {NatToChars(a) \o <<".">> \o NatToChars(b) : a \in 0..MaxMajor, b \in 0..MaxMinor}
  \cup
  {NatToChars(v[1]) \o <<".">> \o NatToChars(v[2]) \o <<".">> \o NatToChars(v[3]) :
     v \in (0..MaxMajor) \X (0..MaxMinor) \X (0..MaxPatch)}

MalformedTexts == {<<>>, <<"4", ".", "x">>, <<"4", ".", ".", "9">>, <<"g", "c", "c">>}

Tools ==
  {[found |-> FALSE, family |-> "none", dumpversion |-> None]}
  \cup
  {[found |-> TRUE, family |-> f, dumpversion |-> d] :
     f \in Families,
     d \in {None} \cup {Some(t) : t \in VersionTexts \cup MalformedTexts}}

InlineLevels == {None} \cup {Some(n) : n \in (0 - MaxInline)..MaxInline}

AllDefines ==
  [softfloat_round_odd : BOOLEAN, inline_level : InlineLevels,
   softfloat_fast_div_32_to_16 : BOOLEAN, softfloat_fast_div_64_to_32 : BOOLEAN,
   softfloat_fast_int64 : BOOLEAN]

(* ------------------------------------------------------------------ *)
(* State                                                               *)
(* ------------------------------------------------------------------ *)
VARIABLES
  pc,            \* position in main
  target_arch,   \* cfg!(target_arch)
  target_os,     \* cfg!(target_os)
  bindgen_log,   \* calls made on the alias generator, in order
  alias_file,    \* Option: path of the alias file on disk
  tool,          \* Option: what builder.get_compiler() found
  version,       \* Option: the parsed GNU version
  thread_local,  \* Option: the detected keyword
  selected,      \* Option: [target, spec, defines] passed to configure_platform
  opt_env,       \* Option: value of OPT_LEVEL as read
  log,           \* calls made on the cc::Build builder, in order
  effective_opt, \* Option: level the compile ran with
  failure,       \* "" or the kind of the panic that ended the run
  message        \* words of the panic message

vars == <<pc, target_arch, target_os, bindgen_log, alias_file, tool, version,
          thread_local, selected, opt_env, log, effective_opt, failure, message>>

Init ==
  /\ pc = "generate"
  /\ target_arch \in Archs
  /\ target_os \in Oses
  /\ bindgen_log = <<>>
  /\ alias_file = None
  /\ tool = None
  /\ version = None
  /\ thread_local = None
  /\ selected = None
  /\ opt_env = None
  /\ log = <<>>
  /\ effective_opt = None
  /\ failure = ""
  /\ message = <<>>

Panic(kind, msg) ==
  /\ pc' = "failed"
  /\ failure' = kind
  /\ message' = msg

(* bindgen::Builder ... .header("c99-types.h") ... .generate().expect(..) *)
Generate ==
  /\ pc = "generate"
  /\ bindgen_log' = Append(bindgen_log, [op |-> "generate", path |-> <<"c99-types.h">>])
  /\ \E ok \in BOOLEAN :
       IF ok THEN pc' = "write" /\ UNCHANGED <<failure, message>>
       ELSE Panic("generate", GenerateMessage)
  /\ UNCHANGED <<target_arch, target_os, alias_file, tool, version, thread_local,
                 selected, opt_env, log, effective_opt>>

(* A failed write that does not stop the run. *)
WriteBindingsIgnoringFailure ==
  /\ pc = "write"
  /\ \E out_dir \in {None} \cup {Some(d) : d \in OutDirs} :
       IF out_dir = None
       THEN /\ Panic("out_dir", <<"OUT_DIR">>)
            /\ UNCHANGED <<bindgen_log, alias_file>>
       ELSE LET path == Join(out_dir[1], <<"c99-types.rs">>)
            IN  /\ bindgen_log' = Append(bindgen_log, [op |-> "write", path |-> path])
                /\ \E ok \in BOOLEAN :
                     /\ alias_file' = IF ok THEN Some(path) ELSE alias_file
                     /\ pc' = "detect"
                     /\ UNCHANGED <<failure, message>>
  /\ UNCHANGED <<target_arch, target_os, tool, version, thread_local, selected,
                 opt_env, log, effective_opt>>

(* bindings.write_to_file(OUT_DIR/c99-types.rs).expect(..) *)
WriteBindings ==
  /\ pc = "write"
  /\ \E out_dir \in {None} \cup {Some(d) : d \in OutDirs} :
       IF out_dir = None
       THEN /\ Panic("out_dir", <<"OUT_DIR">>)
            /\ UNCHANGED <<bindgen_log, alias_file>>
       ELSE LET path == Join(out_dir[1], <<"c99-types.rs">>)
            IN  /\ bindgen_log' = Append(bindgen_log, [op |-> "write", path |-> path])
                /\ \E ok \in BOOLEAN :
                     IF ok
                     THEN /\ alias_file' = Some(path)
                          /\ pc' = "detect"
                          /\ UNCHANGED <<failure, message>>
                     ELSE /\ Panic("write", WriteMessage)
                          /\ UNCHANGED alias_file
  /\ UNCHANGED <<target_arch, target_os, tool, version, thread_local, selected,
                 opt_env, log, effective_opt>>

(* cc::Build::new(), get_compiler(), and the thread_local detection *)
Detect ==
  /\ pc = "detect"
  /\ \E t \in Tools :
       LET r == DetectThreadLocal(t)
       IN  /\ tool' = Some(t)
           /\ version' = r.version
           /\ thread_local' = r.keyword
           /\ IF r.ok THEN pc' = "select" /\ UNCHANGED <<failure, message>>
              ELSE Panic("detector", DetectMessage)
  /\ UNCHANGED <<target_arch, target_os, bindgen_log, alias_file, selected, opt_env,
                 log, effective_opt>>

(* The cfg! chain: configure_platform for the matching rule, else unimplemented! *)
SelectTarget ==
  /\ pc = "select"
  /\ LET entry == TargetTable(target_arch, target_os)
     IN  IF entry = None
         THEN /\ Panic("unsupported", UnsupportedMessage(target_arch, target_os))
              /\ UNCHANGED <<selected, log>>
         ELSE /\ selected' = entry
              /\ log' = ConfigurePlatform(PlatformCfg(thread_local), log, entry[1].spec,
                                          entry[1].target, entry[1].defines)
              /\ pc' = "opt"
              /\ UNCHANGED <<failure, message>>
  /\ UNCHANGED <<target_arch, target_os, bindgen_log, alias_file, tool, version,
                 thread_local, opt_env, effective_opt>>

(* if env::var("OPT_LEVEL").unwrap() == "0" { builder.opt_level(1); } *)
OptLevelWorkaround ==
  /\ pc = "opt"
  /\ \E v \in {None} \cup {Some(o) : o \in OptLevels} :
       /\ opt_env' = v
       /\ IF v = None
          THEN Panic("opt_level_env", <<"OPT_LEVEL">>) /\ UNCHANGED log
          ELSE /\ log' = log \o OptLevelCalls(v[1])
               /\ pc' = "compile"
               /\ UNCHANGED <<failure, message>>
  /\ UNCHANGED <<target_arch, target_os, bindgen_log, alias_file, tool, version,
                 thread_local, selected, effective_opt>>

(* builder.include(..).file("helper.c").warnings(false).compile("softfloat-sys") *)
Compile ==
  /\ pc = "compile"
  /\ log' = log \o FinalCalls
  /\ effective_opt' = Some(EffectiveOptLevel(log, opt_env[1]))
  /\ \E ok \in BOOLEAN :
       IF ok THEN pc' = "done" /\ UNCHANGED <<failure, message>>
       ELSE Panic("compile", <<"compile">>)
  /\ UNCHANGED <<target_arch, target_os, bindgen_log, alias_file, tool, version,
                 thread_local, selected, opt_env>>

Next ==
  \/ Generate
  \/ WriteBindings
  \/ Detect
  \/ SelectTarget
  \/ OptLevelWorkaround
  \/ Compile

Spec == Init /\ [][Next]_vars

(* ------------------------------------------------------------------ *)
(* configure_platform on its own, for every argument it accepts        *)
(* ------------------------------------------------------------------ *)
InitAssemble ==
  /\ pc = "assemble"
  /\ target_arch \in {"x86_64"}
  /\ target_os \in {"linux"}
  /\ bindgen_log = <<>>
  /\ alias_file = None
  /\ tool = None
  /\ version = None
  /\ thread_local \in {None, Some("_Thread_local"), Some("__thread")}
  /\ selected \in {Some(e) : e \in [target : BuildTarget, spec : Specialization,
                                    defines : AllDefines]}
  /\ opt_env = None
  /\ log = <<>>
  /\ effective_opt = None
  /\ failure = ""
  /\ message = <<>>

Assemble ==
  /\ pc = "assemble"
  /\ log' = ConfigurePlatform(PlatformCfg(thread_local), log, selected[1].spec,
                              selected[1].target, selected[1].defines)
  /\ pc' = "assembled"
  /\ UNCHANGED <<target_arch, target_os, bindgen_log, alias_file, tool, version,
                 thread_local, selected, opt_env, effective_opt, failure, message>>

NextAssemble == Next \/ Assemble

SpecAssemble == (Init \/ InitAssemble) /\ [][NextAssemble]_vars

(* ------------------------------------------------------------------ *)
(* Reading the builder log                                             *)
(* ------------------------------------------------------------------ *)
Range(f) == {f[i] : i \in DOMAIN f}
Calls(op) == {i \in 1..Len(log) : log[i].op = op}
FileCallIdx == Calls("files") \cup Calls("file")
DefineSet == {log[i] : i \in Calls("define")}
DefineNames == {log[i].name : i \in Calls("define")}
IncludeSet == {log[i].path : i \in Calls("include")}

RECURSIVE FilesFrom(_)
FilesFrom(i) ==
  IF i > Len(log) THEN <<>>
  ELSE (IF log[i].op = "files" THEN log[i].paths
        ELSE IF log[i].op = "file" THEN <<log[i].path>>
        ELSE <<>>) \o FilesFrom(i + 1)

SubmittedFiles == FilesFrom(1)
NoDuplicates(seq) == Cardinality(Range(seq)) = Len(seq)

SupportedPair ==
  \/ target_arch = "x86_64" /\ target_os = "linux"
  \/ target_arch = "wasm32"
CompileRequested == Calls("compile") # {}
Configured == selected # None /\ pc # "assemble"
TargetResolved ==
  \/ pc \in {"opt", "compile", "done"}
  \/ failure \in {"unsupported", "opt_level_env", "compile"}
Text(s) == Some(s)

(* C1: once the compiler has been probed, a compiler that is not of the GNU
   family has the keyword _Thread_local whatever it reports as its version;
   a GNU one whose version parsed has _Thread_local exactly when
   (major, minor) >= (4, 9) compared as numbers, else __thread.  In
   particular 4.9, 4.10 and 9.3 give _Thread_local, 4.8 and 4.6 __thread. *)
C1_ThreadLocalKeyword ==
  tool # None /\ tool[1].found =>
    LET t == tool[1]
        Reports(x) == t.dumpversion = Some(x)
    IN  /\ t.family # "gnu" => thread_local = Some("_Thread_local") /\ failure # "detector"
        /\ t.family = "gnu" /\ version # None =>
             thread_local =
               IF \/ version[1].major > 4
                  \/ version[1].major = 4 /\ version[1].minor >= 9
               THEN Some("_Thread_local") ELSE Some("__thread")
        /\ t.family = "gnu" /\ Reports(<<"4", ".", "9">>) =>
             thread_local = Some("_Thread_local")
        /\ t.family = "gnu" /\ Reports(<<"4", ".", "1", "0">>) =>
             thread_local = Some("_Thread_local")
        /\ t.family = "gnu" /\ Reports(<<"9", ".", "3">>) =>
             thread_local = Some("_Thread_local")
        /\ t.family = "gnu" /\ Reports(<<"4", ".", "8">>) => thread_local = Some("__thread")
        /\ t.family = "gnu" /\ Reports(<<"4", ".", "6">>) => thread_local = Some("__thread")
        /\ t.family = "gnu" /\ Reports(<<"4", ".", "8", ".", "1">>) =>
             thread_local = Some("__thread")

C1_Witness ==
  /\ tool # None
  /\ tool[1].family = "gnu"
  /\ tool[1].dumpversion = Some(<<"4", ".", "1", "0">>)
  /\ thread_local = Some("_Thread_local")

(* C2: once the target has been looked up, x86_64 with linux has selected
   exactly (Linux_x86_64_GCC, X8086_SSE), wasm32 with any OS exactly
   (Wasm_Clang, X8086), and every other pair has ended the run in the
   unsupported-target failure; an unsupported pair never has a selection. *)
C2_TargetLookup ==
  /\ ~SupportedPair => selected = None
  /\ TargetResolved =>
       /\ target_arch = "x86_64" /\ target_os = "linux" =>
            /\ selected # None
            /\ selected[1].target = "Linux_x86_64_GCC"
            /\ selected[1].spec = "X8086_SSE"
            /\ failure # "unsupported"
       /\ target_arch = "wasm32" =>
            /\ selected # None
            /\ selected[1].target = "Wasm_Clang"
            /\ selected[1].spec = "X8086"
            /\ failure # "unsupported"
       /\ ~SupportedPair => pc = "failed" /\ failure = "unsupported"

C2_Witness ==
  /\ target_arch = "wasm32"
  /\ target_os = "windows"
  /\ selected # None
  /\ selected[1].target = "Wasm_Clang"

(* C3: after configure_platform the define directives on the builder are
   one per true/Some field of Defines (a bare flag, or INLINE_LEVEL with the
   decimal text of the level) plus THREAD_LOCAL with the keyword, each once,
   and nothing for a false/None field; in a run of main, for either
   supported pair, they are exactly the six of the table. *)
C3_DefineDirectives ==
  Configured =>
    LET d == selected[1].defines
    IN  /\ d.softfloat_round_odd <=> Define("SOFTFLOAT_ROUND_ODD", None) \in DefineSet
        /\ d.softfloat_fast_div_32_to_16 <=>
             Define("SOFTFLOAT_FAST_DIV32TO16", None) \in DefineSet
        /\ d.softfloat_fast_div_64_to_32 <=>
             Define("SOFTFLOAT_FAST_DIV64TO32", None) \in DefineSet
        /\ d.softfloat_fast_int64 <=> Define("SOFTFLOAT_FAST_INT64", None) \in DefineSet
        /\ d.inline_level = None <=> "INLINE_LEVEL" \notin DefineNames
        /\ d.inline_level # None =>
             Define("INLINE_LEVEL", Text(IntToString(d.inline_level[1]))) \in DefineSet
        /\ d.inline_level = Some(5) => Define("INLINE_LEVEL", Text("5")) \in DefineSet
        /\ d.inline_level = Some(0) => Define("INLINE_LEVEL", Text("0")) \in DefineSet
        /\ d.inline_level = Some(0 - 3) => Define("INLINE_LEVEL", Text("-3")) \in DefineSet
        /\ Define("THREAD_LOCAL", thread_local) \in DefineSet
        /\ DefineNames \subseteq
             {"SOFTFLOAT_ROUND_ODD", "INLINE_LEVEL", "SOFTFLOAT_FAST_DIV32TO16",
              "SOFTFLOAT_FAST_DIV64TO32", "SOFTFLOAT_FAST_INT64", "THREAD_LOCAL"}
        /\ Cardinality(Calls("define")) = Cardinality(DefineNames)
        /\ pc # "assembled" =>
             /\ thread_local \in {Some("_Thread_local"), Some("__thread")}
             /\ <<selected[1].target, selected[1].spec>> \in
                  {<<"Linux_x86_64_GCC", "X8086_SSE">>, <<"Wasm_Clang", "X8086">>}
             /\ DefineSet =
                  {Define("SOFTFLOAT_ROUND_ODD", None),
                   Define("INLINE_LEVEL", Text("5")),
                   Define("SOFTFLOAT_FAST_DIV32TO16", None),
                   Define("SOFTFLOAT_FAST_DIV64TO32", None),
                   Define("SOFTFLOAT_FAST_INT64", None),
                   Define("THREAD_LOCAL", thread_local)}

C3_Witness ==
  /\ pc = "assembled"
  /\ ~selected[1].defines.softfloat_round_odd
  /\ selected[1].defines.inline_level = None
  /\ selected[1].defines.softfloat_fast_int64
  /\ DefineNames = {"SOFTFLOAT_FAST_INT64", "THREAD_LOCAL"}

(* The files the catalog prescribes for the selected Specialization: the
   primitive and generic-operation lists under source/, the specialization
   list under source/<directory of the Specialization>. *)
SpecDirectory ==
  CASE selected[1].spec = "X8086_SSE" -> "8086-SSE"
    [] selected[1].spec = "X8086" -> "8086"
    [] OTHER -> "?"

CatalogFiles ==
  {<<"berkeley-softfloat-3", "source", n>> :
     n \in Range(primitive_sources) \cup Range(other_sources)}
  \cup
  {<<"berkeley-softfloat-3", "source", SpecDirectory, n>> : n \in Range(specialize_sources)}

FilesBeforeCompile ==
  \A i \in FileCallIdx : \A j \in Calls("compile") : i < j

(* C4 as stated: the files submitted before compile are exactly the catalog's
   files for the selected Specialization, none twice, and nothing else. *)
C4_OnlyCatalogFiles ==
  CompileRequested =>
    /\ Range(SubmittedFiles) = CatalogFiles
    /\ NoDuplicates(SubmittedFiles)
    /\ FilesBeforeCompile

(* C4, amended: the files submitted before compile are the catalog's files
   for the selected Specialization and the single file helper.c, none twice;
   no file comes from another Specialization's subdirectory.  After
   configure_platform alone they are exactly the catalog's files. *)
C4_CatalogFilesAndHelper ==
  /\ Configured /\ ~CompileRequested =>
       /\ Range(SubmittedFiles) = CatalogFiles
       /\ NoDuplicates(SubmittedFiles)
  /\ CompileRequested =>
       /\ Range(SubmittedFiles) = CatalogFiles \cup {<<"helper.c">>}
       /\ NoDuplicates(SubmittedFiles)
       /\ FilesBeforeCompile
       /\ \A f \in Range(SubmittedFiles) :
            Len(f) = 4 => f[3] = SpecDirectory /\ f[4] \in Range(specialize_sources)

C4_Witness ==
  /\ pc = "done"
  /\ selected[1].spec = "X8086"
  /\ <<"helper.c">> \in Range(SubmittedFiles)
  /\ <<"berkeley-softfloat-3", "source", "8086", "s_propagateNaNF64UI.c">>
       \in Range(SubmittedFiles)

(* C5: the compile runs with level 1 when OPT_LEVEL is "0" (one opt_level
   call on the builder), and with the value of OPT_LEVEL itself for every
   other value (no opt_level call on the builder). *)
C5_OptLevelWorkaround ==
  /\ pc \in {"compile", "done"} \/ failure = "compile" =>
       IF opt_env = Some("0")
       THEN Cardinality(Calls("opt_level")) = 1
            /\ \A i \in Calls("opt_level") : log[i].level = "1"
       ELSE Calls("opt_level") = {}
  /\ effective_opt # None =>
       effective_opt = IF opt_env = Some("0") THEN Some("1") ELSE opt_env

C5_Witness ==
  /\ opt_env = Some("0")
  /\ effective_opt = Some("1")
  /\ CompileRequested

(* C6 as stated: when compile has been requested, no include or define
   directive follows a source-file directive, and every source-file
   directive precedes compile. *)
C6_IncludesDefinesBeforeFiles ==
  CompileRequested =>
    /\ \A i \in FileCallIdx :
         \A j \in Calls("include") \cup Calls("define") : j < i
    /\ FilesBeforeCompile

(* C6, amended: when compile has been requested, the two platform include
   directives and every define directive precede the first source-file
   directive; every include, define and source-file directive precedes
   compile, which is the last call; the only include directive after a file
   list is the one for source/include, issued once, right before helper.c. *)
C6_CallOrder ==
  /\ \A i \in FileCallIdx : \A j \in Calls("define") : j < i
  /\ \A i \in Calls("compile") : i = Len(log)
  /\ Cardinality(Calls("compile")) <= 1
  /\ log # <<>> =>
       /\ Len(log) >= 2
       /\ log[1] = Include(<<"berkeley-softfloat-3", "build",
                             BuildTargetToStr(selected[1].target)>>)
       /\ log[2] = Include(<<"berkeley-softfloat-3", "source", SpecDirectory>>)
       /\ \A j \in Calls("define") : j > 2
  /\ \A i \in FileCallIdx : \A j \in Calls("include") :
       i < j => /\ log[j] = Include(<<"berkeley-softfloat-3", "source", "include">>)
                /\ j = Len(log) - 3
                /\ log[j + 1] = File(<<"helper.c">>)
                /\ log[Len(log)].op = "compile"
  /\ CompileRequested =>
       /\ Cardinality(Calls("include")) = 3
       /\ Cardinality(Calls("files")) = 2
       /\ Cardinality(Calls("file")) = 1

C6_Witness ==
  /\ pc = "done"
  /\ log[Len(log)] = CompileCall("softfloat-sys")
  /\ log[Len(log) - 3] = Include(<<"berkeley-softfloat-3", "source", "include">>)
  /\ log[9].op = "files"

(* The platform configuration is on the builder in full: both platform
   includes, the six defines, and the three file lists. *)
PlatformComplete ==
  /\ selected # None
  /\ {<<"berkeley-softfloat-3", "build", BuildTargetToStr(selected[1].target)>>,
      <<"berkeley-softfloat-3", "source", SpecDirectory>>} \subseteq IncludeSet
  /\ DefineNames =
       {"SOFTFLOAT_ROUND_ODD", "INLINE_LEVEL", "SOFTFLOAT_FAST_DIV32TO16",
        "SOFTFLOAT_FAST_DIV64TO32", "SOFTFLOAT_FAST_INT64", "THREAD_LOCAL"}
  /\ CatalogFiles \subseteq Range(SubmittedFiles)

(* C7: in every state of a run the builder carries either none of the
   platform includes, defines and file lists or all of them; compile is
   requested only with all of them, on a supported target; on an unsupported
   target nothing is ever issued, compile is never requested, and the run
   that reaches the lookup fails. *)
C7_AllOrNothing ==
  /\ log = <<>> \/ PlatformComplete
  /\ CompileRequested => SupportedPair /\ PlatformComplete
  /\ pc = "done" => CompileRequested
  /\ ~SupportedPair =>
       /\ log = <<>>
       /\ pc \notin {"opt", "compile", "done"}
       /\ tool # None /\ thread_local # None /\ pc # "select" => pc = "failed"

C7_Witness ==
  /\ pc = "failed"
  /\ failure = "compile"
  /\ PlatformComplete
  /\ Len(SubmittedFiles) = Len(primitive_sources) + Len(other_sources)
                           + Len(specialize_sources) + 1

(* C8 as stated: the unsupported-target message names the architecture and
   the OS of the build. *)
C8_MessageNamesTarget ==
  failure = "unsupported" =>
    target_arch \in Range(message) /\ target_os \in Range(message)

(* C8, amended: the unsupported-target message is one fixed text, the same
   for every unsupported pair; it names neither the architecture nor the OS. *)
C8_FixedMessage ==
  failure = "unsupported" =>
    /\ message = <<"not", "implemented:", "build", "rules", "are", "not", "implemented",
                   "for", "the", "current", "target_arch", "and", "target_os">>
    /\ target_arch \notin Range(message)
    /\ target_os \notin Range(message)

C8_Witness ==
  /\ failure = "unsupported"
  /\ target_arch = "aarch64"
  /\ target_os = "macos"
  /\ message # <<>>

(* The compiler probe could not establish the keyword. *)
ProbeFails ==
  /\ tool # None
  /\ \/ ~tool[1].found
     \/ /\ tool[1].family = "gnu"
        /\ \/ tool[1].dumpversion = None
           \/ tool[1].dumpversion[1] \in MalformedTexts

(* C9: the keyword is detected before, and whatever, the target lookup: the
   lookup has acted only with a keyword bound; on an unsupported target a
   successful probe leaves its keyword bound (GNU 4.6: __thread) and the run
   fails with the unsupported-target failure only; a failed probe ends the
   run with the detector failure on every target, with no keyword bound and
   nothing issued; THREAD_LOCAL is only ever defined as the detected keyword. *)
C9_DetectorIndependent ==
  /\ selected # None \/ failure = "unsupported" =>
       thread_local \in {Some("_Thread_local"), Some("__thread")}
  /\ tool # None /\ ~ProbeFails /\ ~SupportedPair =>
       /\ thread_local # None
       /\ pc = "failed" => failure = "unsupported"
       /\ tool[1].family = "gnu" /\ tool[1].dumpversion = Some(<<"4", ".", "6">>) =>
            thread_local = Some("__thread")
  /\ ProbeFails =>
       /\ pc = "failed"
       /\ failure = "detector"
       /\ thread_local = None
       /\ selected = None
       /\ log = <<>>
  /\ failure = "detector" => ProbeFails
  /\ \A i \in Calls("define") :
       log[i].name = "THREAD_LOCAL" =>
         /\ log[i].value = thread_local
         /\ log[i].value \in {Some("_Thread_local"), Some("__thread")}
         /\ ~ProbeFails

C9_Witness ==
  /\ target_arch = "arm"
  /\ target_os = "linux"
  /\ tool # None
  /\ tool[1].family = "gnu"
  /\ tool[1].dumpversion = Some(<<"4", ".", "6">>)
  /\ thread_local = Some("__thread")
  /\ failure = "unsupported"

(* Detection, the builder or the target lookup has been reached. *)
PastAliases ==
  \/ pc \in {"detect", "select", "opt", "compile", "done"}
  \/ tool # None
  \/ log # <<>>
  \/ failure \in {"detector", "unsupported", "opt_level_env", "compile"}

(* C10: the alias generator is used once per run, generate on c99-types.h
   and then write to OUT_DIR/c99-types.rs, before anything is done with the
   compiler; when generating or writing fails the run ends with nothing
   issued to the builder; a later failure finds the alias file written. *)
C10_AliasesFirst ==
  /\ Len(bindgen_log) <= 2
  /\ pc # "generate" =>
       /\ Len(bindgen_log) >= 1
       /\ bindgen_log[1] = [op |-> "generate", path |-> <<"c99-types.h">>]
  /\ Len(bindgen_log) = 2 =>
       /\ bindgen_log[2].op = "write"
       /\ \E d \in OutDirs : bindgen_log[2].path = d \o <<"c99-types.rs">>
  /\ PastAliases =>
       /\ Len(bindgen_log) = 2
       /\ alias_file = Some(bindgen_log[2].path)
  /\ failure \in {"generate", "out_dir", "write"} =>
       /\ pc = "failed"
       /\ log = <<>>
       /\ tool = None
       /\ alias_file = None
  /\ alias_file # None => Len(bindgen_log) = 2

C10_Witness ==
  /\ failure = "compile"
  /\ alias_file = Some(<<"target", "out", "c99-types.rs">>)
  /\ Len(bindgen_log) = 2

====
